---- MODULE Spec2Model ----
(***************************************************************************)
(* Model of the Game component of tic_tac_toe_frontend/src/App.js: the     *)
(* React state of Game, its handlers (handlePlay, jumpTo, startNewRound,   *)
(* resetMatch, setMode), its two effects (the delayed CPU move and the     *)
(* score update) and the pure helpers calculateWinner / chooseBestMove.    *)
(*                                                                         *)
(* One action is one event: the handler's state updates, the render that   *)
(* follows and the effects of that render's commit.                        *)
(***************************************************************************)
EXTENDS Integers, Sequences, FiniteSets

(* ------------------------------ bounds --------------------------------- *)

\* The scores are unbounded counters: a terminal board is not entered once
\* the three counters sum to MaxScore.
MaxScore == 2

\* jumpTo is also called with steps up to MaxBeyond outside 0 .. length - 1
\* (specification SpecApi).
MaxBeyond == 1

\* Math.random() is drawn from the RandomLevels values k / RandomLevels.
RandomLevels == 4

(* ------------------------------ values --------------------------------- *)

Null == "null"

Cells == 0 .. 8

Marks == {"X", "O"}

Modes == {"HUMAN", "CPU"}

\* Array(9).fill(null)
EmptyBoard == [i \in Cells |-> Null]

LINES ==
  << <<0, 1, 2>>, <<3, 4, 5>>, <<6, 7, 8>>,
     <<0, 3, 6>>, <<1, 4, 7>>, <<2, 5, 8>>,
     <<0, 4, 8>>, <<2, 4, 6>> >>

\* The clicks of the end-to-end play X:0, O:3, X:1, O:4, X:2, by step.
Scenario == <<0, 3, 1, 4, 2>>

Min(S) == CHOOSE m \in S : \A n \in S : m <= n

(* --------------------------- pure functions ---------------------------- *)

\* The indices (in LINES) of the lines the loop of calculateWinner accepts.
CompleteLines(squares) ==
  { k \in 1 .. Len(LINES) :
      LET a == LINES[k][1]
          b == LINES[k][2]
          c == LINES[k][3]
      IN  squares[a] # Null /\ squares[a] = squares[b] /\ squares[a] = squares[c] }

\* calculateWinner returning the last accepted line.
calculateWinner_LastLine(squares) ==
  LET complete == CompleteLines(squares)
  IN  IF complete = {}
        THEN [winner |-> Null, line |-> <<>>]
        ELSE LET k == CHOOSE m \in complete : \A n \in complete : m >= n
             IN  [winner |-> squares[LINES[k][1]], line |-> LINES[k]]

\* The loop returns at the first accepted line.
calculateWinner(squares) ==
  LET complete == CompleteLines(squares)
  IN  IF complete = {}
        THEN [winner |-> Null, line |-> <<>>]
        ELSE LET k == Min(complete)
             IN  [winner |-> squares[LINES[k][1]], line |-> LINES[k]]

\* The lines findWinningMove accepts for player.
OpenLines(squares, player) ==
  { k \in 1 .. Len(LINES) :
      LET filledByPlayer == Cardinality({j \in 1 .. 3 : squares[LINES[k][j]] = player})
          emptyIndices == SelectSeq(LINES[k], LAMBDA idx : squares[idx] = Null)
      IN  filledByPlayer = 2 /\ Len(emptyIndices) = 1 }

\* findWinningMove returning the first cell of the line, not its empty one.
findWinningMove_FirstCell(squares, player) ==
  LET open == OpenLines(squares, player)
  IN  IF open = {} THEN -1 ELSE LINES[Min(open)][1]

findWinningMove(squares, player) ==
  LET open == OpenLines(squares, player)
  IN  IF open = {}
        THEN -1
        ELSE LET k == Min(open)
                 emptyIndices == SelectSeq(LINES[k], LAMBDA idx : squares[idx] = Null)
             IN  emptyIndices[1]

\* arr[Math.floor(Math.random() * arr.length)], Math.random() = rnd / RandomLevels
randomPick(arr, rnd) == arr[((rnd * Len(arr)) \div RandomLevels) + 1]

\* chooseBestMove without the centre, corner and side steps.
chooseBestMove_WinOrBlock(squares, player, rnd) ==
  LET opponent == IF player = "X" THEN "O" ELSE "X"
      winMove == findWinningMove(squares, player)
      blockMove == findWinningMove(squares, opponent)
  IN  IF winMove # -1 THEN winMove
      ELSE IF blockMove # -1 THEN blockMove
      ELSE -1

\* chooseBestMove trying the block before the win.
chooseBestMove_BlockFirst(squares, player, rnd) ==
  LET opponent == IF player = "X" THEN "O" ELSE "X"
      winMove == findWinningMove(squares, player)
      blockMove == findWinningMove(squares, opponent)
      corners == SelectSeq(<<0, 2, 6, 8>>, LAMBDA i : squares[i] = Null)
      sides == SelectSeq(<<1, 3, 5, 7>>, LAMBDA i : squares[i] = Null)
  IN  IF blockMove # -1 THEN blockMove
      ELSE IF winMove # -1 THEN winMove
      ELSE IF squares[4] = Null THEN 4
      ELSE IF Len(corners) > 0 THEN randomPick(corners, rnd)
      ELSE IF Len(sides) > 0 THEN randomPick(sides, rnd)
      ELSE -1

chooseBestMove(squares, player, rnd) ==
  LET opponent == IF player = "X" THEN "O" ELSE "X"
      winMove == findWinningMove(squares, player)
      blockMove == findWinningMove(squares, opponent)
      corners == SelectSeq(<<0, 2, 6, 8>>, LAMBDA i : squares[i] = Null)
      sides == SelectSeq(<<1, 3, 5, 7>>, LAMBDA i : squares[i] = Null)
  IN  IF winMove # -1 THEN winMove
      ELSE IF blockMove # -1 THEN blockMove
      ELSE IF squares[4] = Null THEN 4
      ELSE IF Len(corners) > 0 THEN randomPick(corners, rnd)
      ELSE IF Len(sides) > 0 THEN randomPick(sides, rnd)
      ELSE -1

(* ------------------------------- state --------------------------------- *)

VARIABLES
  history,          \* useState([Array(9).fill(null)]); entry n is history[n + 1]
  stepNumber,       \* useState(0)
  xIsNext,          \* useState(true)
  mode,             \* useState('HUMAN')
  startingPlayer,   \* useState('X')
  scores,           \* useState({ X: 0, O: 0, draws: 0 })
  timeouts,         \* the pending setTimeout calls: their ids and what the callbacks close over
  cleanup,          \* the id the CPU effect's cleanup clears: NoCleanup after return undefined
  terminalSeen,     \* history variable: this round has shown a terminal board
  roundGain,        \* history variable: how often the score effect counted in this round
  lastEvent,        \* history variable: what the last accepted event was
  call              \* a call of calculateWinner or chooseBestMove on its own: NoCall in Game

vars == <<history, stepNumber, xIsNext, mode, startingPlayer, scores, timeouts, cleanup,
          terminalSeen, roundGain, lastEvent, call>>

\* return undefined
NoCleanup == -1

NoCall == [fn |-> "none"]

ZeroScores == [X |-> 0, O |-> 0, draws |-> 0]

(* ---------------------- values derived in a render ---------------------- *)

\* const current = history[stepNumber]
CurrentOf(h, s) == h[s + 1]

IsBoardFullOf(board) == \A c \in Cells : board[c] # Null

\* GameOverOf without the winner test.
GameOverOf_FullOnly(wi, full) == full

\* const gameOver = winnerInfo.winner !== null || isBoardFull
GameOverOf(wi, full) == wi.winner # Null \/ full

\* IsCpuTurnOf with the CPU always playing O.
IsCpuTurnOf_AlwaysO(over, x, m, sp) ==
  /\ m = "CPU"
  /\ ~over
  /\ ~x

IsCpuTurnOf(over, x, m, sp) ==
  /\ m = "CPU"
  /\ ~over
  /\ ((sp = "O" /\ x) \/ (sp = "X" /\ ~x))

\* The disabled prop Game passes to Board.
BoardDisabledOf(over, cpu, x, m, sp) ==
  \/ over
  \/ /\ m = "CPU"
     /\ ~cpu
     /\ ((sp = "X" /\ ~x) \/ (sp = "O" /\ x))

\* history[stepNumber] is undefined for a step outside the history: the render
\* throws in calculateWinner and React unmounts the tree.
Mounted == stepNumber \in 0 .. Len(history) - 1

current == CurrentOf(history, stepNumber)

winnerInfo == calculateWinner(current)

isBoardFull == IsBoardFullOf(current)

gameOver == GameOverOf(winnerInfo, isBoardFull)

isCpuTurn == IsCpuTurnOf(gameOver, xIsNext, mode, startingPlayer)

BoardDisabled == BoardDisabledOf(gameOver, isCpuTurn, xIsNext, mode, startingPlayer)

nextPlayer == IF xIsNext THEN "X" ELSE "O"

Total(sc) == sc.X + sc.O + sc.draws

(* ------------------------------- effects ------------------------------- *)

\* ScoreUpdate with a draw counted for O.
ScoreUpdate_DrawForO(prev, winner) ==
  IF winner = "X" THEN [prev EXCEPT !.X = prev.X + 1]
  ELSE [prev EXCEPT !.O = prev.O + 1]

\* The updater the score effect hands to setScores.
ScoreUpdate(prev, winner) ==
  IF winner = "X" THEN [prev EXCEPT !.X = prev.X + 1]
  ELSE IF winner = "O" THEN [prev EXCEPT !.O = prev.O + 1]
  ELSE [prev EXCEPT !.draws = prev.draws + 1]

\* ScoreEffectFires without the dependency array: the effect runs after every render.
ScoreEffectFires_EveryRender(over1, winner1, over2, winner2) == over2

\* The score effect runs when one of its dependencies [gameOver, winnerInfo.winner]
\* differs from the previous render's (over1, winner1), and counts when gameOver
\* is true.
ScoreEffectFires(over1, winner1, over2, winner2) ==
  /\ <<over2, winner2>> # <<over1, winner1>>
  /\ over2

\* CpuEffectRuns without current among the dependencies.
CpuEffectRuns_NoCurrent(cpu1, x1, cpu2, x2, currentReplaced) ==
  \/ cpu2 # cpu1
  \/ x2 # x1

\* The CPU effect runs again (its cleanup clears the pending timeout) when one of
\* [isCpuTurn, current, xIsNext] differs from the previous render's; current is
\* compared by identity.
CpuEffectRuns(cpu1, x1, cpu2, x2, currentReplaced) ==
  \/ cpu2 # cpu1
  \/ currentReplaced
  \/ x2 # x1

\* What the timeout's callback closes over.
Closure(id, h2, s2, x2) == [id |-> id, history |-> h2, stepNumber |-> s2, xIsNext |-> x2]

\* The id setTimeout returns: one no pending timeout has.
NewId(ts) == Min({i \in 0 .. Cardinality(ts) : \A t \in ts : t.id # i})

\* Cleanup of an effect that returns no cleanup.
Cleanup_Nothing(ts, id) == ts

\* return () => clearTimeout(timeout): the timeouts left of ts.
Cleanup(ts, id) == {t \in ts : t.id # id}

\* The commit of the render that follows an event which set the state to
\* (h2, s2, x2, m2, sp2, sc2) and left the timeouts ts: both effects. w1 is the
\* previous render's winnerInfo, board2 and w2 are this render's current and
\* winnerInfo (bound once, as useMemo holds them).
Commit(h2, s2, x2, m2, sp2, sc2, ts, currentReplaced, roundStart) ==
  /\ history' = h2
  /\ stepNumber' = s2
  /\ xIsNext' = x2
  /\ mode' = m2
  /\ startingPlayer' = sp2
  /\ \E w1 \in {winnerInfo}, board2 \in {CurrentOf(h2, s2)} :
     \E w2 \in {calculateWinner(board2)} :
       LET over1 == GameOverOf(w1, isBoardFull)
           cpu1 == IsCpuTurnOf(over1, xIsNext, mode, startingPlayer)
           over2 == GameOverOf(w2, IsBoardFullOf(board2))
           cpu2 == IsCpuTurnOf(over2, x2, m2, sp2)
           fires == ScoreEffectFires(over1, w1.winner, over2, w2.winner)
       IN  /\ fires => Total(sc2) < MaxScore
           /\ scores' = IF fires THEN ScoreUpdate(sc2, w2.winner) ELSE sc2
           /\ IF CpuEffectRuns(cpu1, xIsNext, cpu2, x2, currentReplaced)
                THEN \E left \in {Cleanup(ts, cleanup)} :
                       IF cpu2
                         THEN /\ timeouts' = left \cup {Closure(NewId(left), h2, s2, x2)}
                              /\ cleanup' = NewId(left)
                         ELSE /\ timeouts' = left
                              /\ cleanup' = NoCleanup
                ELSE /\ timeouts' = ts
                     /\ cleanup' = cleanup
           /\ terminalSeen' = (over2 \/ (terminalSeen /\ ~roundStart))
           /\ roundGain' = (IF roundStart THEN 0 ELSE roundGain) + (IF fires THEN 1 ELSE 0)

(* ------------------------------- handlers ------------------------------ *)

\* HandlePlayRejects without the current[index] test.
HandlePlayRejects_NoOccupied(board, index) ==
  GameOverOf(calculateWinner(board), IsBoardFullOf(board))

\* HandlePlayRejects without the gameOver test.
HandlePlayRejects_NoGameOver(board, index) == board[index] # Null

\* if (current[index] || gameOver) return;
HandlePlayRejects(board, index) ==
  board[index] # Null \/ GameOverOf(calculateWinner(board), IsBoardFullOf(board))

\* NewHistory without the slice.
NewHistory_NoSlice(h, s, next) == Append(h, next)

\* history.slice(0, stepNumber + 1).concat([next])
NewHistory(h, s, next) == Append(SubSeq(h, 1, s + 1), next)

\* handlePlay(index) of the render whose closure holds (h, s, x); ts are the
\* timeouts left pending by the caller.
HandlePlay(h, s, x, index, ts) ==
  IF HandlePlayRejects(CurrentOf(h, s), index)
    THEN /\ timeouts' = ts
         /\ UNCHANGED <<history, stepNumber, xIsNext, mode, startingPlayer, scores,
                        cleanup, terminalSeen, roundGain>>
    ELSE \E next \in {[CurrentOf(h, s) EXCEPT ![index] = IF x THEN "X" ELSE "O"]} :
         \E newHistory \in {NewHistory(h, s, next)} :
             Commit(newHistory, Len(newHistory) - 1, ~x, mode, startingPlayer, scores,
                    ts, TRUE, FALSE)

First(S) == IF S = {} THEN {} ELSE {Min(S)}

\* The cells a click is drawn from: the first occupied cell, the first empty
\* cell, and the cell the end-to-end play clicks at this step.
ClickCells(board, s) ==
  First({c \in Cells : board[c] # Null})
    \cup First({c \in Cells : board[c] = Null})
    \cup {Scenario[k] : k \in {s + 1} \cap DOMAIN Scenario}

Clicks == IF Mounted THEN ClickCells(current, stepNumber) ELSE {}

\* The placeMark intent: Board's onPlay is handlePlay.
PlaceMark(index) ==
  /\ Mounted
  /\ HandlePlay(history, stepNumber, xIsNext, index, timeouts)
  /\ lastEvent' = IF HandlePlayRejects(current, index) THEN lastEvent
                  ELSE IF stepNumber < Len(history) - 1 THEN "rewoundMove"
                  ELSE "other"
  /\ UNCHANGED call

\* A pending timeout fires: its callback runs with what it closed over.
CpuMove(rnd) ==
  /\ Mounted
  /\ lastEvent' = "cpuMove"
  /\ \E t \in timeouts :
       LET board == CurrentOf(t.history, t.stepNumber)
           cpuMove == chooseBestMove(board, IF t.xIsNext THEN "X" ELSE "O", rnd)
       IN  IF cpuMove # -1
             THEN HandlePlay(t.history, t.stepNumber, t.xIsNext, cpuMove, timeouts \ {t})
             ELSE /\ timeouts' = timeouts \ {t}
                  /\ UNCHANGED <<history, stepNumber, xIsNext, mode, startingPlayer, scores,
                                 cleanup, terminalSeen, roundGain>>
  /\ UNCHANGED call

\* TurnAtStep that takes X for the starter.
TurnAtStep_XStarts(step, sp) == step % 2 = 0

\* step % 2 === 0 ? startingPlayer === 'X' : startingPlayer !== 'X'
TurnAtStep(step, sp) == IF step % 2 = 0 THEN sp = "X" ELSE sp # "X"

JumpTo(step) ==
  /\ Mounted
  /\ IF step \in 0 .. Len(history) - 1
       THEN Commit(history, step, TurnAtStep(step, startingPlayer), mode, startingPlayer,
                   scores, timeouts, step # stepNumber, FALSE)
       ELSE /\ stepNumber' = step
            /\ xIsNext' = TurnAtStep(step, startingPlayer)
            /\ timeouts' = Cleanup(timeouts, cleanup)
            /\ cleanup' = NoCleanup
            /\ UNCHANGED <<history, mode, startingPlayer, scores, terminalSeen, roundGain>>
  /\ lastEvent' = "other"
  /\ UNCHANGED call

\* startNewRound without setStartingPlayer.
startNewRound_KeepsStarter(nextStarter, sc2) ==
  Mounted /\ Commit(<<EmptyBoard>>, 0, nextStarter = "X", mode, startingPlayer, sc2, timeouts, TRUE, TRUE)

startNewRound(nextStarter, sc2) ==
  Mounted /\ Commit(<<EmptyBoard>>, 0, nextStarter = "X", mode, nextStarter, sc2, timeouts, TRUE, TRUE)

NewRound ==
  /\ startNewRound(startingPlayer, scores)
  /\ lastEvent' = "other"
  /\ UNCHANGED call

SwapStarter ==
  /\ startNewRound(IF startingPlayer = "X" THEN "O" ELSE "X", scores)
  /\ lastEvent' = "other"
  /\ UNCHANGED call

\* resetMatch without setScores.
resetMatch_KeepsScores ==
  /\ startNewRound("X", scores)
  /\ lastEvent' = IF roundGain > 0 THEN "scoredReset" ELSE "other"
  /\ UNCHANGED call

\* setScores({ X: 0, O: 0, draws: 0 }); startNewRound('X');
resetMatch ==
  /\ startNewRound("X", ZeroScores)
  /\ lastEvent' = IF roundGain > 0 THEN "scoredReset" ELSE "other"
  /\ UNCHANGED call

SetMode(m) ==
  /\ Mounted
  /\ Commit(history, stepNumber, xIsNext, m, startingPlayer, scores, timeouts, FALSE, FALSE)
  /\ lastEvent' = "other"
  /\ UNCHANGED call

(* ---------------------------- specification ---------------------------- *)

Init ==
  /\ history = <<EmptyBoard>>
  /\ stepNumber = 0
  /\ xIsNext = TRUE
  /\ mode = "HUMAN"
  /\ startingPlayer = "X"
  /\ scores = ZeroScores
  /\ timeouts = {}
  /\ cleanup = NoCleanup
  /\ terminalSeen = FALSE
  /\ roundGain = 0
  /\ lastEvent = "other"
  /\ call = NoCall

\* A click on a square.
Click == \E index \in Clicks : PlaceMark(index)

\* The timeout fires; Math.random() gives rnd / RandomLevels.
CpuTimeout == \E rnd \in 0 .. RandomLevels - 1 : CpuMove(rnd)

\* A click on one of the History buttons, one per entry.
Jump == \E step \in 0 .. Len(history) - 1 : JumpTo(step)

\* The intents in the domains the interface gives them.
Next ==
  \/ Click
  \/ CpuTimeout
  \/ Jump
  \/ NewRound
  \/ SwapStarter
  \/ resetMatch
  \/ \E m \in Modes : SetMode(m)

Spec == Init /\ [][Next]_vars

\* jumpTo called with any step.
JumpOutside ==
  \E step \in (0 - MaxBeyond) .. (Len(history) - 1 + MaxBeyond) :
    step \notin 0 .. Len(history) - 1 /\ JumpTo(step)

NextApi == Next \/ JumpOutside

SpecApi == Init /\ [][NextApi]_vars

\* A timeout that stays pending fires: the browser runs the callback once the
\* 400 ms have passed, unless clearTimeout came first.
SpecLive == Init /\ [][Next]_vars /\ WF_vars(CpuTimeout)

(* ------------------- the pure functions called on their own ------------- *)

\* Every array of 9 cells over null, 'X', 'O'.
Boards == [Cells -> Marks \cup {Null}]

\* Game as constructed, and one call with its arguments: calculateWinner(squares),
\* or chooseBestMove(squares, player) with Math.random() = rnd / RandomLevels.
InitCalls ==
  /\ history = <<EmptyBoard>>
  /\ stepNumber = 0
  /\ xIsNext = TRUE
  /\ mode = "HUMAN"
  /\ startingPlayer = "X"
  /\ scores = ZeroScores
  /\ timeouts = {}
  /\ cleanup = NoCleanup
  /\ terminalSeen = FALSE
  /\ roundGain = 0
  /\ lastEvent = "other"
  /\ call \in [fn : {"calculateWinner"}, squares : Boards, returned : {FALSE}]
              \cup [fn : {"chooseBestMove"}, squares : Boards, player : Marks,
                    rnd : 0 .. RandomLevels - 1, returned : {FALSE}]

game == <<history, stepNumber, xIsNext, mode, startingPlayer, scores, timeouts, cleanup,
          terminalSeen, roundGain, lastEvent>>

CalculateWinnerCall ==
  /\ call.fn = "calculateWinner"
  /\ ~call.returned
  /\ call' = [fn |-> call.fn, squares |-> call.squares, returned |-> TRUE,
              result |-> calculateWinner(call.squares)]
  /\ UNCHANGED game

ChooseBestMoveCall ==
  /\ call.fn = "chooseBestMove"
  /\ ~call.returned
  /\ call' = [fn |-> call.fn, squares |-> call.squares, player |-> call.player,
              rnd |-> call.rnd, returned |-> TRUE,
              result |-> chooseBestMove(call.squares, call.player, call.rnd)]
  /\ UNCHANGED game

NextCalls == CalculateWinnerCall \/ ChooseBestMoveCall

SpecCalls == InitCalls /\ [][NextCalls]_vars

(* ------------------------- vocabulary of the claims --------------------- *)

\* mark holds all three cells of some line of board.
HasLine(board, mark) ==
  \E k \in 1 .. Len(LINES) : \A j \in 1 .. 3 : board[LINES[k][j]] = mark

Full(board) == \A c \in Cells : board[c] # Null

Terminal(board) == HasLine(board, "X") \/ HasLine(board, "O") \/ Full(board)

\* The board after the first n clicks of Scenario, X starting.
ScenarioBoard(n) ==
  [c \in Cells |->
     IF \E k \in 1 .. n : Scenario[k] = c
       THEN IF (CHOOSE k \in 1 .. n : Scenario[k] = c) % 2 = 1 THEN "X" ELSE "O"
       ELSE Null]

ScenarioHistory == [n \in 1 .. Len(Scenario) + 1 |-> ScenarioBoard(n - 1)]

\* An accepted move from the pointer: entries up to the pointer kept, one entry
\* added (current with the mover's mark on index), the rest dropped.
BranchAt(index) ==
  /\ Len(history') = stepNumber + 2
  /\ \A n \in 1 .. stepNumber + 1 : history'[n] = history[n]
  /\ history'[stepNumber + 2] = [current EXCEPT ![index] = nextPlayer]
  /\ stepNumber' = stepNumber + 1

(* -------------------------------- claims -------------------------------- *)

\* C1: jumpTo never changes the ScoreBoard: after jumpTo(step) for an in-range
\* step, scoring reaction included, x, o and draws are what they were.
C1_JumpKeepsScores ==
  [][\A step \in 0 .. Len(history) - 1 : JumpTo(step) => scores' = scores]_vars

\* C2: between two round starts the sum x + o + draws grows by at most 1,
\* whatever moves, jumps and mode changes happen in the round.
C2_ScoredAtMostOncePerRound == roundGain <= 1

\* A step that shows the round's first terminal board counts it once, for the
\* mark of the line or as a draw.
C3_FirstTerminalMove ==
  (~terminalSeen /\ Terminal(current'))
    => /\ HasLine(current', "X") => scores' = [scores EXCEPT !.X = @ + 1]
       /\ HasLine(current', "O") => scores' = [scores EXCEPT !.O = @ + 1]
       /\ (~HasLine(current', "X") /\ ~HasLine(current', "O"))
            => scores' = [scores EXCEPT !.draws = @ + 1]

\* The step that completes the end-to-end play of a fresh match.
C3_EndToEnd ==
  (scores = ZeroScores /\ ~terminalSeen /\ history' = ScenarioHistory /\ stepNumber' = 5)
    => /\ winnerInfo' = [winner |-> "X", line |-> <<0, 1, 2>>]
       /\ scores' = [X |-> 1, O |-> 0, draws |-> 0]

\* C3: an accepted move that takes the round to a terminal board for the first
\* time adds exactly 1 to the matching counter (x for a line of X, o for a line
\* of O, draws for a full board without a line) and leaves the other two; the
\* play X:0, O:3, X:1, O:4, X:2 of a fresh match ends in Won(X, [0,1,2]) with
\* x = 1, o = 0, draws = 0.
C3_TerminalScoresOnce == [][C3_FirstTerminalMove /\ C3_EndToEnd]_vars

C3_Witness ==
  /\ history = ScenarioHistory
  /\ stepNumber = 5
  /\ roundGain = 1
  /\ scores = [X |-> 1, O |-> 0, draws |-> 0]

\* C4: in CPU mode a placeMark issued while it is the opponent's turn (round in
\* progress, CPU move pending) is rejected: history, pointer and turn stay.
\* Stated for the clicks Board's disabled prop lets through, so that either the
\* prop or handlePlay may do the rejecting.
C4_CpuTurnRejectsClick ==
  [][\A index \in Cells :
       (isCpuTurn /\ timeouts # {} /\ ~BoardDisabled /\ PlaceMark(index))
         => UNCHANGED <<history, stepNumber, xIsNext>>]_vars

\* C5: placeMark on an occupied cell of the current board, or while the current
\* board is terminal, changes neither the history, the pointer, the turn nor
\* the ScoreBoard.
C5_RejectedPlaceIsNoOp ==
  [][\A over \in {Terminal(current)} : \A index \in Cells :
       ((current[index] # Null \/ over) /\ PlaceMark(index))
         => UNCHANGED <<history, stepNumber, xIsNext, scores, mode, startingPlayer>>]_vars

C5_Witness ==
  /\ HasLine(current, "O")
  /\ \E c \in Clicks : current[c] = Null
  /\ \E c \in Clicks : current[c] # Null
  /\ stepNumber = Len(history) - 1

\* A pending timeout was set by the render of the present state.
C6_TimerIsCurrent ==
  \A timer \in timeouts :
       /\ timer.history = history
       /\ timer.stepNumber = stepNumber
       /\ timer.xIsNext = xIsNext
       /\ mode = "CPU"
       /\ ~Terminal(current)
       /\ nextPlayer # startingPlayer

\* A firing timeout places the mover's mark on an empty cell of current.
CpuMoveLands ==
  (\E rnd \in 0 .. RandomLevels - 1 : CpuMove(rnd))
    => \E index \in Cells : current[index] = Null /\ BranchAt(index)

\* C6: a pending CPU move is the one scheduled for the present state (same
\* history, pointer and turn, in CPU mode on the opponent's turn of a round in
\* progress), so one scheduled before a new round, a mode change, a move or a
\* jump is gone; the mark a firing places is the mover's mark on an empty cell
\* of the board current at firing time.
C6_NoStaleCpuMove == []C6_TimerIsCurrent /\ [][CpuMoveLands]_vars

C6_Witness ==
  /\ lastEvent = "cpuMove"
  /\ stepNumber = Len(history) - 1
  /\ Len(history) >= 5

\* C7: a move accepted with the pointer at s leaves a history of length s + 2
\* whose entries 0..s are the old ones and whose entry s + 1 is the new board;
\* the pointer is s + 1.
C7_BranchAndOverwrite ==
  [][/\ ~Terminal(current)
          => \A index \in Cells : (current[index] = Null /\ PlaceMark(index)) => BranchAt(index)
     /\ CpuMoveLands]_vars

C7_Witness ==
  /\ lastEvent = "rewoundMove"
  /\ stepNumber = Len(history) - 1
  /\ stepNumber = 2

\* C8: the stored turn is startingPlayer at an even pointer and the other mark
\* at an odd one.
C8_TurnFollowsStep ==
  /\ stepNumber % 2 = 0 => nextPlayer = startingPlayer
  /\ stepNumber % 2 = 1 => nextPlayer # startingPlayer

C8_Witness ==
  /\ stepNumber % 2 = 1
  /\ stepNumber < Len(history) - 1
  /\ startingPlayer = "O"
  /\ xIsNext

\* C9: jumpTo with a step outside 0 .. length - 1 is rejected: the pointer stays
\* inside the history, so history[stepNumber] exists.
C9_PointerInRange == stepNumber \in 0 .. Len(history) - 1

C10_ResetResult ==
  resetMatch
    => /\ scores' = ZeroScores
       /\ history' = <<EmptyBoard>>
       /\ stepNumber' = 0
       /\ startingPlayer' = "X"
       /\ xIsNext' = TRUE

C10_ZeroUntilTerminal ==
  (scores = ZeroScores /\ ~Terminal(current')) => scores' = ZeroScores

\* C10: resetMatch leaves x = o = draws = 0, a history of one empty board, the
\* pointer at 0, startingPlayer = X and turn = X; scores that are 0 stay 0 as
\* long as the board shown is not terminal.
C10_ResetMatch == [][C10_ResetResult /\ C10_ZeroUntilTerminal]_vars

C10_Witness ==
  /\ lastEvent = "scoredReset"
  /\ scores = ZeroScores
  /\ history = <<EmptyBoard>>

\* What a round start with the given starter leaves.
RoundStarted(starter) ==
  /\ history' = <<EmptyBoard>>
  /\ stepNumber' = 0
  /\ startingPlayer' = starter
  /\ nextPlayer' = starter
  /\ scores' = scores
  /\ mode' = mode

C11_NewRoundResult ==
  /\ \A starter \in Marks : startNewRound(starter, scores) => RoundStarted(starter)
  /\ NewRound => RoundStarted(startingPlayer)
  /\ SwapStarter => (startingPlayer' # startingPlayer /\ RoundStarted(startingPlayer'))

C11_NoDecrease ==
  resetMatch \/ (scores'.X >= scores.X /\ scores'.O >= scores.O /\ scores'.draws >= scores.draws)

\* C11: startNewRound(starter) leaves a history of one empty board, the pointer
\* at 0, startingPlayer = starter and turn = starter, with the ScoreBoard and the
\* mode as they were; swapStarter is startNewRound with the other mark; no step
\* other than resetMatch lowers x, o or draws.
C11_NewRoundFrame == [][C11_NewRoundResult /\ C11_NoDecrease]_vars

C11_Witness ==
  /\ history = <<EmptyBoard>>
  /\ startingPlayer = "O"
  /\ nextPlayer = "O"
  /\ Total(scores) > 0
  /\ mode = "CPU"

\* C12: setMode(m) changes only the mode: history, pointer, turn, startingPlayer
\* and ScoreBoard are after the call what they were before, for both modes.
C12_SetModeFrame ==
  [][\A m \in Modes :
       SetMode(m) => /\ mode' = m
                     /\ UNCHANGED <<history, stepNumber, xIsNext, startingPlayer, scores>>]_vars

C12_Witness ==
  /\ mode = "CPU"
  /\ Terminal(current)
  /\ Total(scores) = 1
  /\ roundGain = 1
  /\ timeouts = {}

\* The order of the triples: rows, columns, diagonals.
Canonical ==
  << <<0, 1, 2>>, <<3, 4, 5>>, <<6, 7, 8>>, <<0, 3, 6>>,
     <<1, 4, 7>>, <<2, 5, 8>>, <<0, 4, 8>>, <<2, 4, 6>> >>

\* The three cells of the k-th triple of board hold the same mark.
Won(board, k) == \E m \in Marks : \A j \in 1 .. 3 : board[Canonical[k][j]] = m

\* C13: for every board of 9 cells over {null, X, O}, calculateWinner returns
\* the first triple, in the order rows, columns, diagonals, whose cells hold one
\* mark, with that mark; it returns no winner and no line exactly when there is
\* no such triple, so a full board without one is a draw.
C13_FirstCompleteLine ==
  (call.fn = "calculateWinner" /\ call.returned)
    => LET board == call.squares
           r == call.result
           some == \E k \in 1 .. 8 : Won(board, k)
       IN  /\ some => \E k \in 1 .. 8 :
                         /\ Won(board, k)
                         /\ \A i \in 1 .. k - 1 : ~Won(board, i)
                         /\ r.line = Canonical[k]
                         /\ r.winner = board[Canonical[k][1]]
           /\ ~some => (r.winner = Null /\ r.line = <<>>)
           /\ (r.winner = Null) <=> ~some
           /\ (r.line = <<>>) <=> ~some
           /\ (Full(board) /\ ~some) => (r.winner = Null /\ GameOverOf(r, IsBoardFullOf(board)))

C13_Witness ==
  /\ call.fn = "calculateWinner"
  /\ call.returned
  /\ \A c \in {0, 1, 2} : call.squares[c] = "X"
  /\ \A c \in {3, 4, 5} : call.squares[c] = "O"
  /\ call.result = [winner |-> "X", line |-> <<0, 1, 2>>]

\* C14: for every board, either mark and every outcome of the random pick,
\* chooseBestMove returns -1 exactly when the board has no empty cell, and
\* otherwise the index (0..8) of an empty cell, never of an occupied one.
C14_MoveIsEmptyCell ==
  (call.fn = "chooseBestMove" /\ call.returned)
    => /\ (call.result = -1) <=> Full(call.squares)
       /\ call.result # -1 => (call.result \in Cells /\ call.squares[call.result] = Null)

C14_Witness ==
  /\ call.fn = "chooseBestMove"
  /\ call.returned
  /\ call.squares = [EmptyBoard EXCEPT ![4] = "X"]
  /\ call.player = "O"
  /\ call.rnd = RandomLevels - 1
  /\ call.result = 8

\* The k-th triple of board holds exactly two marks of mark and one empty cell.
Open(board, mark, k) ==
  /\ Cardinality({j \in 1 .. 3 : board[Canonical[k][j]] = mark}) = 2
  /\ Cardinality({j \in 1 .. 3 : board[Canonical[k][j]] = Null}) = 1

SomeOpen(board, mark) == \E k \in 1 .. 8 : Open(board, mark, k)

\* The empty cell of the first such triple.
FirstOpenCell(board, mark) ==
  LET k == CHOOSE i \in 1 .. 8 : Open(board, mark, i) /\ \A h \in 1 .. i - 1 : ~Open(board, mark, h)
  IN  CHOOSE c \in Cells : (\E j \in 1 .. 3 : Canonical[k][j] = c) /\ board[c] = Null

\* The priority win > block > centre > corner > side.
C15_Priority ==
  (call.fn = "chooseBestMove" /\ call.returned)
    => LET board == call.squares
           mover == call.player
           other == IF mover = "X" THEN "O" ELSE "X"
           r == call.result
       IN  IF SomeOpen(board, mover) THEN r = FirstOpenCell(board, mover)
           ELSE IF SomeOpen(board, other) THEN r = FirstOpenCell(board, other)
           ELSE IF board[4] = Null THEN r = 4
           ELSE IF \E c \in {0, 2, 6, 8} : board[c] = Null
             THEN r \in {0, 2, 6, 8} /\ board[r] = Null
           ELSE IF \E c \in {1, 3, 5, 7} : board[c] = Null
             THEN r \in {1, 3, 5, 7} /\ board[r] = Null
           ELSE TRUE

\* [X,X,_,...] with X to move gives 2, [O,O,_,X,_,...] with X to move gives 2,
\* the empty board gives 4.
C15_Examples ==
  (call.fn = "chooseBestMove" /\ call.returned /\ call.player = "X")
    => /\ call.squares = [EmptyBoard EXCEPT ![0] = "X", ![1] = "X"] => call.result = 2
       /\ call.squares = [EmptyBoard EXCEPT ![0] = "O", ![1] = "O", ![3] = "X"] => call.result = 2
       /\ call.squares = EmptyBoard => call.result = 4

\* C15: chooseBestMove returns the empty cell of the first line (rows, columns,
\* diagonals) with exactly two of the mover's marks and one empty cell; failing
\* that the same for the opponent's marks; failing that 4 if empty; failing that
\* an empty cell of {0,2,6,8}; failing that an empty cell of {1,3,5,7}.
C15_BestMovePriority == C15_Priority /\ C15_Examples

C15_Witness ==
  /\ call.fn = "chooseBestMove"
  /\ call.returned
  /\ call.squares = [EmptyBoard EXCEPT ![0] = "X", ![1] = "X", ![3] = "O", ![4] = "O"]
  /\ call.player = "X"
  /\ call.result = 2

\* The number of marks on board.
MarkCount(board) == Cardinality({c \in Cells : board[c] # Null})

\* The mark entry n adds: startingPlayer's for odd n, the other for even n.
MarkOfEntry(n) ==
  IF n % 2 = 1 THEN startingPlayer ELSE IF startingPlayer = "X" THEN "O" ELSE "X"

\* C16: the history is well formed: entry 0 is the empty board, there are 1 to
\* 10 entries, and entry n (n >= 1) is entry n - 1 with one empty cell filled
\* by startingPlayer's mark for odd n and by the other mark for even n, so
\* entry n holds n marks.
C16_HistoryWellFormed ==
  /\ Len(history) \in 1 .. 10
  /\ history[1] = EmptyBoard
  /\ \A n \in 1 .. Len(history) - 1 :
       /\ \E c \in Cells : /\ history[n][c] = Null
                            /\ history[n + 1] = [history[n] EXCEPT ![c] = MarkOfEntry(n)]
       /\ MarkCount(history[n + 1]) = n

C16_Witness ==
  /\ lastEvent = "rewoundMove"
  /\ startingPlayer = "O"
  /\ Len(history) >= 5
  /\ mode = "CPU"

\* At most one timeout is pending, and only in CPU mode on the opponent's turn
\* of a board that is not terminal.
C17_AtMostOnePending ==
  /\ Cardinality(timeouts) <= 1
  /\ timeouts # {} => /\ mode = "CPU"
                      /\ ~Terminal(current)
                      /\ nextPlayer # startingPlayer

\* A step that schedules a timeout leaves no other one pending.
C17_NewCancelsOld == \A t \in timeouts' : t \notin timeouts => timeouts' = {t}

\* C17: at most one deferred CPU move is pending at any time, and only while
\* the mode is CPU, the current board is not terminal and it is the opponent's
\* turn; when a new one is scheduled the previous one has been cancelled.
C17_OnePendingCpuMove == []C17_AtMostOnePending /\ [][C17_NewCancelsOld]_vars

C17_Witness ==
  /\ Cardinality(timeouts) = 1
  /\ stepNumber = 3
  /\ Len(history) = 6
  /\ \A t \in timeouts : t.id = cleanup /\ t.stepNumber = 3

\* C18: no entry of the history holds a complete line of X together with one
\* of O, and only the last entry can be terminal: every earlier entry has no
\* complete line and at least one empty cell.
C18_OnlyLastTerminal ==
  /\ \A n \in 1 .. Len(history) : ~(HasLine(history[n], "X") /\ HasLine(history[n], "O"))
  /\ \A n \in 1 .. Len(history) - 1 :
       /\ ~HasLine(history[n], "X")
       /\ ~HasLine(history[n], "O")
       /\ \E c \in Cells : history[n][c] = Null

C18_Witness ==
  /\ Len(history) >= 7
  /\ HasLine(history[Len(history)], "O")
  /\ stepNumber < Len(history) - 1
  /\ lastEvent = "other"

\* CPU mode, round in progress, the opponent (the non-starting mark) to move.
CpuToMove ==
  /\ mode = "CPU"
  /\ ~Terminal(current)
  /\ nextPlayer # startingPlayer

\* A firing adds, after the pointer, current with one more mark of the opponent,
\* and gives the turn to the human.
CpuMoveApplied ==
  \E index \in Cells :
    /\ current[index] = Null
    /\ BranchAt(index)
    /\ history'[stepNumber + 2][index] # startingPlayer
    /\ MarkCount(current') = MarkCount(current) + 1
    /\ (nextPlayer' = startingPlayer' \/ Terminal(current'))

\* The opponent's turn ends: by its move, unless another intent ends it first.
\* (With the counters at MaxScore a move that ends the round is not taken.)
C19_TurnEnds ==
  (CpuToMove /\ Total(scores) < MaxScore) ~> (lastEvent = "cpuMove" \/ ~CpuToMove)

\* C19 as stated: in CPU mode, on the opponent's turn of a round in progress,
\* the opponent's move is eventually applied if no other intent arrives and the
\* timer may fire; applying it makes the history one entry longer, the new entry
\* holding one more mark of the opponent, and the turn passes to the human or
\* the round becomes terminal.
C19_CpuMoveGrowsHistory ==
  /\ [][(CpuTimeout /\ CpuToMove)
          => (CpuMoveApplied /\ Len(history') = Len(history) + 1)]_vars
  /\ C19_TurnEnds

\* C19 amended: as stated, except that the move is applied after the pointer:
\* the history becomes its entries up to the pointer and the new entry, which
\* makes it one entry longer when the pointer is at its end.
C19_CpuMoveEventuallyApplied ==
  /\ [][(CpuTimeout /\ CpuToMove)
          => /\ CpuMoveApplied
             /\ stepNumber = Len(history) - 1 => Len(history') = Len(history) + 1]_vars
  /\ C19_TurnEnds

C19_Witness ==
  /\ lastEvent = "cpuMove"
  /\ terminalSeen
  /\ stepNumber = 2
  /\ Len(history) = 3
  /\ nextPlayer = startingPlayer

\* A pending CPU move was scheduled at an odd pointer, for the non-starting mark.
C20_ScheduledAtOddStep ==
  \A t \in timeouts :
    /\ stepNumber % 2 = 1
    /\ t.stepNumber % 2 = 1
    /\ (IF t.xIsNext THEN "X" ELSE "O") # startingPlayer

\* A firing happens at an odd pointer and places the non-starting mark.
C20_AppliedAtOddStep ==
  CpuTimeout
    => /\ stepNumber % 2 = 1
       /\ startingPlayer' = startingPlayer
       /\ \E index \in Cells :
            /\ current[index] = Null
            /\ history'[stepNumber + 2][index] \in Marks \ {startingPlayer}
            /\ \A c \in Cells \ {index} : history'[stepNumber + 2][c] = current[c]

\* C20: a CPU move is scheduled and applied only at an odd pointer, so never as
\* the first move of a round (also after swapStarter or a jump to step 0), and
\* the mark it places is the opposite of startingPlayer.
C20_CpuPlaysNonStarter == []C20_ScheduledAtOddStep /\ [][C20_AppliedAtOddStep]_vars

C20_Witness ==
  /\ lastEvent = "cpuMove"
  /\ startingPlayer = "O"
  /\ stepNumber = 2
  /\ \E c \in Cells : history[2][c] = Null /\ current[c] = "X"

====
